---- MODULE Spec2Model ----
(***************************************************************************)
(* Blocky DNS integration: the polling coordinator                         *)
(* (BlockyDataUpdateCoordinator in src/__init__.py), the metric sensors    *)
(* that read it (src/sensor.py) and the setup step that precedes it        *)
(* (src/config_flow.py).                                                   *)
(*                                                                         *)
(* One coroutine is in flight at a time: a scheduled refresh or a control  *)
(* action (which may itself await a refresh).  pc is the await the         *)
(* coroutine is suspended at; every action of the model runs the code from *)
(* one await to the next.  A deadline (async_timeout.timeout) may expire   *)
(* at any await inside its block: the task is cancelled there              *)
(* (CancelledError, a BaseException) and the block's exit turns the        *)
(* cancellation into asyncio.TimeoutError.                                 *)
(*                                                                         *)
(* Spec        the coordinator: refreshes and control actions              *)
(* SpecParser  _parse_prometheus_metrics applied to the body of a metrics  *)
(*             response, for every body of a pool of lines                 *)
(* SpecSensor  the properties of the metric sensors read on the            *)
(*             coordinator as a refresh has left it                        *)
(* SpecConfig  async_step_user and validate_input, before the coordinator  *)
(*             is constructed                                              *)
(***************************************************************************)
EXTENDS Integers, Sequences, FiniteSets, TLC

VARIABLES
    prometheus_enabled,   \* self.prometheus_enabled (fixed at construction)
    data,                 \* self.data: the snapshot, None before the first success
    last_update_success,  \* self.last_update_success
    last_exception,       \* self.last_exception: the UpdateFailed of the last failure
    op,                   \* the coroutine started or the property read last
    pc,                   \* the await it is suspended at, "idle" when it has ended
    localData,            \* the dict the coroutine has decoded (`data`, `result`)
    result,               \* what the last call gave its caller
    params,               \* the request parameters of disable_blocking
    args,                 \* the arguments the last call was made with
    deadline,             \* seconds given to the coroutine's async_timeout.timeout
    metrics_text,         \* the body of the metrics response, as it arrived
    pending,              \* a refresh request the debouncer holds for later
    events,               \* history: what the coroutine has done, in order
    rf,                   \* history: the refresh the coroutine has started,
                          \* with the lines the body of its metrics response has
    refresh_id,           \* history: number of refreshes started
    localStamp,           \* history: the refresh each part of localData is from
    dataStamp             \* history: the refresh each part of data is from

vars == <<prometheus_enabled, data, last_update_success, last_exception, op, pc,
          localData, result, params, args, deadline, metrics_text, pending,
          events, rf, refresh_id, localStamp, dataStamp>>

\* Refreshes started in one behaviour.
MaxRefreshes == 2

\* Lines in a metrics body given to the parser.
MaxLines == 2

\* Lines in a metrics body the sensors read the samples of.
MaxSamples == 3

\* const.py: the timeout a config entry has unless its options set another.
DEFAULT_TIMEOUT == 10

\* self.timeout
timeout == DEFAULT_TIMEOUT

----------------------------------------------------------------------------
(* Python and JSON values *)

None == [t |-> "None"]

JNull == [t |-> "null", v |-> <<>>]
JTrue == [t |-> "bool", v |-> <<"true">>]
JFalse == [t |-> "bool", v |-> <<"false">>]
JInt(s) == [t |-> "int", v |-> <<s>>]
JStr(s) == [t |-> "str", v |-> <<s>>]
JDict == [t |-> "dict", v |-> <<>>]
JList(s) == [t |-> "list", v |-> s]

\* {} : the empty dict
EmptyDict == <<>>

\* d[k] = val on a dict
Put(d, k, val) == [x \in (DOMAIN d) \cup {k} |-> IF x = k THEN val ELSE d[x]]

\* An argument left at its default, None.
NoArg == "<None>"
Durations == {NoArg, "", "5m"}
Groups == {NoArg, "", "ads"}

\* disable_blocking() called with no argument, and the calls without
\* parameters.
NoArgs == [duration |-> NoArg, groups |-> NoArg]

ATTR_ENABLED == "enabled"
ATTR_AUTO_ENABLE_IN_SEC == "autoEnableInSec"
ATTR_DISABLED_GROUPS == "disabledGroups"

\* const.py PROMETHEUS_METRICS, the allow-list table: key to metric name.
PROMETHEUS_METRICS_TABLE ==
    [ denylist_cache_entries |-> "blocky_denylist_cache_entries",
      allowlist_cache_entries |-> "blocky_allowlist_cache_entries",
      error_total |-> "blocky_error_total",
      query_total |-> "blocky_query_total",
      request_duration_seconds |-> "blocky_blocky_request_duration_seconds",
      response_total |-> "blocky_response_total",
      blocking_enabled |-> "blocky_blocking_enabled",
      cache_entries |-> "blocky_cache_entries",
      cache_hits_total |-> "blocky_cache_hits_total",
      cache_misses_total |-> "blocky_cache_misses_total",
      last_list_group_refresh |->
          "blocky_last_list_group_refresh_timestamp_seconds",
      prefetches_total |-> "blocky_prefetches_total",
      prefetch_hits_total |-> "blocky_prefetch_hits_total",
      prefetch_domain_cache_entries |->
          "blocky_prefetch_domain_name_cache_entries",
      failed_downloads_total |-> "blocky_failed_downloads_total" ]

\* The values the allow-list table maps its keys to:
\* PROMETHEUS_METRICS.values()
PROMETHEUS_METRICS ==
    { PROMETHEUS_METRICS_TABLE[k] : k \in DOMAIN PROMETHEUS_METRICS_TABLE }

----------------------------------------------------------------------------
(* What the remote side may answer *)

DisabledGroupsValues ==
    { JNull, JStr("ads"), JDict,
      JList(<<>>), JList(<<"ads", "malware">>) }

\* A JSON object with the given fields.
Payload(enabled, groups) ==
    Put(Put(EmptyDict, ATTR_ENABLED, enabled), ATTR_DISABLED_GROUPS, groups)

\* The JSON objects the status endpoint may send: disabledGroups of every
\* shape or absent, autoEnableInSec present or absent, enabled absent.
StatusPayloads ==
    { Payload(e, g) : e \in {JTrue, JFalse}, g \in DisabledGroupsValues }
    \cup { Put(EmptyDict, ATTR_ENABLED, e) : e \in {JTrue, JFalse} }
    \cup { Put(Payload(JFalse, JList(<<"ads">>)), ATTR_AUTO_ENABLE_IN_SEC, JInt("300")),
           Put(Put(EmptyDict, ATTR_ENABLED, JFalse), ATTR_AUTO_ENABLE_IN_SEC, JNull),
           EmptyDict }

----------------------------------------------------------------------------
(* Text *)

(* A text is a sequence of pieces, in the order of its characters.  A piece *)
(* is one character that is no name character, or a word: a maximal run of  *)
(* name characters [a-zA-Z0-9_:], so no two words are adjacent.             *)

Quote == "\""

\* The characters str.strip() removes and \s matches.
Whitespace == {" ", "\t", "\r"}

\* The characters of the texts that are no name characters.
Punctuation ==
    Whitespace \cup {"\n", "{", "}", ",", "=", Quote, "#", ".", "-", "+", "(", ")"}

IsWord(p) == p \notin Punctuation

\* The words made of decimal digits only, with the number each one writes.
DigitWords == {"0", "1", "3", "5", "7", "42"}

DigitValue(w) ==
    CASE w = "0" -> 0 [] w = "1" -> 1 [] w = "3" -> 3
      [] w = "5" -> 5 [] w = "7" -> 7 [] w = "42" -> 42

\* The hundredths a digit word stands for after the decimal point.
FractionValue(w) ==
    CASE w = "0" -> 0 [] w = "1" -> 10 [] w = "3" -> 30
      [] w = "5" -> 50 [] w = "7" -> 70 [] w = "42" -> 42

\* The words whose first character is a digit: they cannot begin a name.
DigitLedWords == DigitWords \cup {"1e5", "5m"}

\* The text as the str it is.
RECURSIVE Concat(_)
Concat(ps) == IF ps = <<>> THEN "" ELSE Head(ps) \o Concat(Tail(ps))

\* str.split(sep), the pieces of the part being read in cur
RECURSIVE SplitFrom(_, _, _)
SplitFrom(s, sep, cur) ==
    IF s = <<>> THEN <<cur>>
    ELSE IF Head(s) = sep THEN <<cur>> \o SplitFrom(Tail(s), sep, <<>>)
    ELSE SplitFrom(Tail(s), sep, Append(cur, Head(s)))

Split(s, sep) == SplitFrom(s, sep, <<>>)

RECURSIVE LStrip(_, _)
LStrip(s, chars) ==
    IF s # <<>> /\ Head(s) \in chars THEN LStrip(Tail(s), chars) ELSE s

RECURSIVE RStrip(_, _)
RStrip(s, chars) ==
    IF s # <<>> /\ s[Len(s)] \in chars
    THEN RStrip(SubSeq(s, 1, Len(s) - 1), chars) ELSE s

\* str.strip() / str.strip(chars)
Strip(s, chars) == RStrip(LStrip(s, chars), chars)

\* The index of the first piece of s in chars, 0 when there is none.
Find(s, chars) ==
    IF \E i \in DOMAIN s : s[i] \in chars
    THEN CHOOSE i \in DOMAIN s :
            s[i] \in chars /\ \A j \in 1..(i - 1) : s[j] \notin chars
    ELSE 0

\* The metrics endpoint sent no body yet.
NoText == <<>>

\* A label of a sample line as the exporter writes it: value quoted or bare,
\* with or without blanks around key and value.
Label(k, val, quoted, padded) ==
    [key |-> k, val |-> val, quoted |-> quoted, padded |-> padded]

\* A line of the body: a sample line `name{labels} value` (labels may be
\* none), or any other line, given as it is.
Sample(n, l, val) ==
    [wellformed |-> TRUE, name |-> n, labels |-> l, value |-> val, raw |-> <<>>]
Other(raw) ==
    [wellformed |-> FALSE, name |-> "", labels |-> <<>>, value |-> <<>>, raw |-> raw]

RenderLabel(l) ==
    LET pad == IF l.padded THEN <<" ">> ELSE <<>>
        q == IF l.quoted THEN <<Quote>> ELSE <<>>
    IN  pad \o <<l.key>> \o pad \o <<"=">> \o pad \o q \o l.val \o q \o pad

RECURSIVE RenderLabels(_)
RenderLabels(ls) ==
    IF ls = <<>> THEN <<>>
    ELSE IF Len(ls) = 1 THEN RenderLabel(ls[1])
    ELSE RenderLabel(ls[1]) \o <<",">> \o RenderLabels(Tail(ls))

RenderLine(l) ==
    IF l.wellformed
    THEN <<l.name>>
         \o (IF l.labels = <<>> THEN <<>>
             ELSE <<"{">> \o RenderLabels(l.labels) \o <<"}">>)
         \o <<" ">> \o l.value
    ELSE l.raw

\* The body: the lines, a newline after each.
RECURSIVE RenderText(_)
RenderText(ls) ==
    IF ls = <<>> THEN <<>>
    ELSE RenderLine(Head(ls)) \o <<"\n">> \o RenderText(Tail(ls))

QueryLine(client, type, val) ==
    Sample("blocky_query_total",
           << Label("client", <<client>>, TRUE, FALSE),
              Label("type", <<type>>, TRUE, FALSE) >>, val)

\* The bodies the metrics endpoint sends the coordinator.
MetricsBodies ==
    { <<>>,
      << Sample("blocky_cache_entries", <<>>, <<"42">>) >>,
      << QueryLine("x", "A", <<"3">>),
         Sample("go_goroutines", <<>>, <<"7">>),
         QueryLine("y", "A", <<"5">>) >> }

\* The lines of the bodies given to the parser: sample lines of recognised
\* and unrecognised names, with labels quoted, bare and padded, with values
\* int() and float() take and values they refuse; and lines that are none.
ParserLines ==
    { QueryLine("x", "A", <<"3">>),
      QueryLine("y", "A", <<"5">>),
      Sample("blocky_cache_entries", <<>>, <<"42">>),
      Sample("blocky_cache_entries", <<>>, <<"NaN">>),
      Sample("blocky_response_total",
             << Label("reason", <<"BLOCKED", " ", "(", "ads", ")">>, TRUE, TRUE),
                Label("response_type", <<"CACHED">>, FALSE, FALSE) >>,
             <<"1", ".", "5">>),
      Sample("go_goroutines", <<>>, <<"7">>),
      Sample("blocky_cache_hits_total", <<>>, <<"+", "3">>),
      Sample("blocky_cache_hits_total", <<>>, <<"1e5">>),
      Sample("blocky_cache_hits_total", <<>>, <<"-", ".", "5">>),
      Sample("blocky_cache_hits_total", <<>>, <<"1", ".">>),
      Sample("blocky_cache_hits_total", <<>>, <<"1", ".", "3", ".", "3">>),
      Other(<<>>),
      Other(<<" ", "\t", "\r">>),
      Other(<<"#", " ", "HELP", " ", "blocky_query_total", " ", "3">>),
      Other(<<" ", "#", "blocky_cache_entries", " ", "1">>),
      Other(<<"blocky_query_total">>),
      Other(<<"{", "client", "=", Quote, "x", Quote, "}", " ", "3">>),
      Other(<<"blocky_query_total", "{", "client", "=", Quote, "x", Quote,
              " ", "3">>),
      Other(<<"42", " ", "7">>) }

\* The lines of the bodies whose samples the sensors read: samples of one
\* name with different labels, one of them without the client label, int
\* and float values and a value kept as a str.
SensorLines ==
    { QueryLine("x", "A", <<"3">>),
      QueryLine("y", "A", <<"5">>),
      QueryLine("x", "AAAA", <<"1", ".", "5">>),
      QueryLine("y", "AAAA", <<"NaN">>),
      Sample("blocky_query_total",
             << Label("type", <<"A">>, TRUE, FALSE) >>, <<"7">>),
      Sample("blocky_response_total",
             << Label("reason", <<"BLOCKED", " ", "(", "ads", ")">>, TRUE, FALSE),
                Label("response_type", <<"BLOCKED">>, TRUE, FALSE) >>,
             <<"1">>),
      Sample("blocky_response_total",
             << Label("reason", <<"CACHED">>, TRUE, FALSE),
                Label("response_type", <<"Cached">>, TRUE, FALSE) >>,
             <<"3">>) }

\* The bodies of at most n lines of the pool.
Bodies(pool, n) == UNION { [1..k -> pool] : k \in 0..n }

ParserBodies == Bodies(ParserLines, MaxLines)

SensorBodies == Bodies(SensorLines, MaxSamples)

\* The metric names of the sensors that read, and the label filters they
\* may read with: none, the empty one, and filters on one and two keys.
SensorMetrics ==
    {"blocky_query_total", "blocky_response_total", "blocky_cache_entries"}

LabelFilters ==
    { None, EmptyDict,
      Put(EmptyDict, "client", "x"),
      Put(EmptyDict, "client", "z"),
      Put(Put(EmptyDict, "client", "y"), "type", "A"),
      Put(EmptyDict, "type", "AAAA") }

----------------------------------------------------------------------------
(* _async_update_data, between its awaits *)

\* Mutant: the isinstance check is left out, a value that is no list stays.
NormalizeOnlyMissing(d) ==
    IF ATTR_DISABLED_GROUPS \notin DOMAIN d
        THEN Put(d, ATTR_DISABLED_GROUPS, JList(<<>>))
    ELSE IF d[ATTR_DISABLED_GROUPS] = JNull
        THEN Put(d, ATTR_DISABLED_GROUPS, JList(<<>>))
    ELSE d

\* "Ensure disabledGroups is always a list"
NormalizeDisabledGroups(d) ==
    IF ATTR_DISABLED_GROUPS \notin DOMAIN d
        THEN Put(d, ATTR_DISABLED_GROUPS, JList(<<>>))
    ELSE IF d[ATTR_DISABLED_GROUPS] = JNull
        THEN Put(d, ATTR_DISABLED_GROUPS, JList(<<>>))
    ELSE IF d[ATTR_DISABLED_GROUPS].t # "list"
        THEN Put(d, ATTR_DISABLED_GROUPS, JList(<<>>))
    ELSE d

\* A group of the pattern that took no part in the match: None.
NoGroup == NoArg

\* re.match(r'^([a-zA-Z_:][a-zA-Z0-9_:]*)?(\{[^}]*\})?\s+([^\s]+)', line):
\* the name is the word the line begins with, unless a digit leads it; the
\* label block runs from a "{" right after it to the first "}"; whitespace
\* must follow, and the value is the run up to the next whitespace.  No
\* other way to match exists: a shorter name is followed by a name
\* character, a label block cannot pass a "}", and shorter whitespace is
\* followed by whitespace.
Match(line) ==
    LET hasName == line # <<>> /\ IsWord(Head(line))
                   /\ Head(line) \notin DigitLedWords
        afterName == IF hasName THEN Tail(line) ELSE line
        close == Find(afterName, {"}"})
        hasLabels == afterName # <<>> /\ Head(afterName) = "{" /\ close > 0
        afterLabels == IF hasLabels
                       THEN SubSeq(afterName, close + 1, Len(afterName))
                       ELSE afterName
        afterSpace == LStrip(afterLabels, Whitespace)
        stop == Find(afterSpace, Whitespace)
        value_str == IF stop = 0 THEN afterSpace
                     ELSE SubSeq(afterSpace, 1, stop - 1)
    IN  [matched |-> Len(afterSpace) < Len(afterLabels) /\ value_str # <<>>,
         metric_name |-> IF hasName THEN Head(line) ELSE NoGroup,
         labels_str |-> IF hasLabels THEN SubSeq(afterName, 1, close) ELSE <<>>,
         value_str |-> value_str]

\* A sample's value: an int, a float (n in hundredths), or the str s.
IntValue(n) == [t |-> "int", n |-> n, s |-> ""]
FloatValue(n) == [t |-> "float", n |-> n, s |-> ""]
StrValue(s) == [t |-> "str", n |-> 0, s |-> s]

\* A leading sign of a number, and the rest.
Unsigned(v) == IF v # <<>> /\ Head(v) \in {"-", "+"} THEN Tail(v) ELSE v
Sign(v) == IF v # <<>> /\ Head(v) = "-" THEN -1 ELSE 1

\* int(value_str) returns: a sign or none, then digits.
IsInt(v) == Len(Unsigned(v)) = 1 /\ Unsigned(v)[1] \in DigitWords

\* float(value_str) returns, for a value_str with a ".": a sign or none, then
\* digits on one side of the "." or on both.  (No value of the bodies has
\* an exponent behind a ".".)
IsFloat(v) ==
    LET u == Unsigned(v)
    IN  \/ Len(u) = 3 /\ u[1] \in DigitWords /\ u[2] = "." /\ u[3] \in DigitWords
        \/ Len(u) = 2 /\ u[1] \in DigitWords /\ u[2] = "."
        \/ Len(u) = 2 /\ u[1] = "." /\ u[2] \in DigitWords

FloatOf(v) ==
    LET u == Unsigned(v)
        whole == IF u[1] = "." THEN 0 ELSE DigitValue(u[1])
        fraction == IF u[Len(u)] = "." THEN 0 ELSE FractionValue(u[Len(u)])
    IN  Sign(v) * (whole * 100 + fraction)

\* Mutant: a token that is no number counts as 0.
ParseValueZeroOnFailure(value_str) ==
    IF \E i \in DOMAIN value_str : value_str[i] = "."
    THEN IF IsFloat(value_str) THEN FloatValue(FloatOf(value_str))
         ELSE IntValue(0)
    ELSE IF IsInt(value_str)
         THEN IntValue(Sign(value_str) * DigitValue(Unsigned(value_str)[1]))
         ELSE IntValue(0)

\* try: float(value_str) if '.' in value_str else int(value_str)
\* except ValueError: value = value_str
ParseValue(value_str) ==
    IF \E i \in DOMAIN value_str : value_str[i] = "."
    THEN IF IsFloat(value_str) THEN FloatValue(FloatOf(value_str))
         ELSE StrValue(Concat(value_str))
    ELSE IF IsInt(value_str)
         THEN IntValue(Sign(value_str) * DigitValue(Unsigned(value_str)[1]))
         ELSE StrValue(Concat(value_str))

\* for pair in label_pairs: if '=' in pair: labels[key.strip()] =
\* val.strip().strip('"'), key and val the parts before and after the
\* first '='
RECURSIVE ParsePairs(_, _)
ParsePairs(label_pairs, labels) ==
    IF label_pairs = <<>> THEN labels
    ELSE LET pair == Head(label_pairs)
             eq == Find(pair, {"="})
             key == SubSeq(pair, 1, eq - 1)
             val == SubSeq(pair, eq + 1, Len(pair))
         IN  ParsePairs(Tail(label_pairs),
                        IF eq = 0 THEN labels
                        ELSE Put(labels, Concat(Strip(key, Whitespace)),
                                 Concat(Strip(Strip(val, Whitespace), {Quote}))))

\* if labels_str: labels_content = labels_str[1:-1], split at ','
ParseLabels(labels_str) ==
    IF labels_str = <<>> THEN EmptyDict
    ELSE ParsePairs(Split(SubSeq(labels_str, 2, Len(labels_str) - 1), ","),
                    EmptyDict)

\* Mutant: the allow-list is not consulted, every named line is kept.
KeptAnyName(line, match) ==
    /\ line # <<>>
    /\ Head(line) # "#"
    /\ match.matched
    /\ match.metric_name # NoGroup

\* The `continue` statements of the loop: the stripped line adds a sample
\* when it is not empty, is no comment, matches the pattern and names a
\* metric of the allow-list.
Kept(line, match) ==
    /\ line # <<>>
    /\ Head(line) # "#"
    /\ match.matched
    /\ match.metric_name \in PROMETHEUS_METRICS

\* Mutant: a sample replaces the samples its name has.
AddSampleReplacing(metrics, metric_name, sample) ==
    Put(metrics, metric_name, <<sample>>)

\* if metric_name not in metrics: metrics[metric_name] = []
\* metrics[metric_name].append(...)
AddSample(metrics, metric_name, sample) ==
    Put(metrics, metric_name,
        Append(IF metric_name \in DOMAIN metrics THEN metrics[metric_name]
               ELSE <<>>, sample))

\* The loop of _parse_prometheus_metrics over the lines, metrics the dict
\* built so far.
RECURSIVE ParseLines(_, _)
ParseLines(lines, metrics) ==
    IF lines = <<>> THEN metrics
    ELSE LET line == Strip(Head(lines), Whitespace)
             match == Match(line)
             sample == [value |-> ParseValue(match.value_str),
                        labels |-> ParseLabels(match.labels_str)]
         IN  ParseLines(Tail(lines),
                        IF Kept(line, match)
                        THEN AddSample(metrics, match.metric_name, sample)
                        ELSE metrics)

_parse_prometheus_metrics(text) == ParseLines(Split(text, "\n"), EmptyDict)

\* except Exception around the metrics fetch: data["prometheus"] = {}
MetricsFallback(d) == Put(d, "prometheus", EmptyDict)

\* Mutant: the else branch is left out, no entry is made.
MetricsDisabledNoEntry(d) == d

\* the else branch, metrics disabled: data["prometheus"] = {}
MetricsDisabled(d) == Put(d, "prometheus", EmptyDict)

\* data["prometheus"] = prometheus_data
MetricsFetched(d, text) == Put(d, "prometheus", _parse_prometheus_metrics(text))

\* The exception classes of aiohttp.ClientError the calls can raise.
ClientErrors == {"ClientConnectorError", "ContentTypeError"}

\* Mutant: the except clause for asyncio.TimeoutError is left out.
UpdateFailedNoTimeoutClause(exc) ==
    IF exc \in {"ClientConnectorError", "ContentTypeError"}
        THEN [msg |-> "Error communicating with API", detail |-> exc]
    ELSE [msg |-> "Unexpected error", detail |-> exc]

\* The except clauses of _async_update_data: the UpdateFailed each exception
\* leaves the function as.
UpdateFailedFor(exc) ==
    IF exc = "TimeoutError"
        THEN [msg |-> "Timeout communicating with API", detail |-> exc]
    ELSE IF exc \in ClientErrors
        THEN [msg |-> "Error communicating with API", detail |-> exc]
    ELSE [msg |-> "Unexpected error", detail |-> exc]

NoException == [msg |-> "", detail |-> ""]


\* `except Exception` around the metrics fetch: CancelledError is a
\* BaseException and passes it.
InnerExceptCatches(exc) == exc # "CancelledError"

\* The exit of `async with async_timeout.timeout(...)`: the cancellation its
\* own deadline caused leaves the block as TimeoutError.
TimeoutExit(exc) == IF exc = "CancelledError" THEN "TimeoutError" ELSE exc

HttpStatuses == {200, 404, 500}

RefreshAwaits == {"status_get", "status_json", "metrics_get", "metrics_text"}
StatusAwaits == {"status_get", "status_json"}
MetricsAwaits == {"metrics_get", "metrics_text"}

BlockingActions == {"enable_blocking", "disable_blocking"}
PostActions == {"refresh_lists", "flush_cache"}
ControlActions == BlockingActions \cup PostActions \cup {"query_dns"}

NoStamp == [status |-> 0, metrics |-> 0]

NoRefresh ==
    [state |-> "none", owner |-> "none", cause |-> "none", payload |-> None,
     mres |-> "none", mreq |-> 0, lines |-> <<>>, before |-> None,
     beforeStamp |-> NoStamp, beforeSuccess |-> TRUE,
     beforeException |-> NoException]

----------------------------------------------------------------------------
Init ==
    /\ prometheus_enabled \in BOOLEAN
    /\ data = None
    /\ last_update_success = TRUE
    /\ last_exception = NoException
    /\ op = "none"
    /\ pc = "idle"
    /\ localData = None
    /\ result = "none"
    /\ params = EmptyDict
    /\ args = NoArgs
    /\ deadline = timeout
    /\ metrics_text = NoText
    /\ pending = FALSE
    /\ events = <<>>
    /\ rf = NoRefresh
    /\ refresh_id = 0
    /\ localStamp = NoStamp
    /\ dataStamp = NoStamp

----------------------------------------------------------------------------
(* A refresh: _async_update_data run by the coordinator *)

\* The coordinator enters _async_update_data: the status request goes out.
BeginRefresh(owner) ==
    /\ pc' = "status_get"
    /\ localData' = None
    /\ localStamp' = NoStamp
    /\ refresh_id' = refresh_id + 1
    /\ metrics_text' = NoText
    /\ rf' = [state |-> "running", owner |-> owner, cause |-> "none",
              payload |-> None, mres |-> "none", mreq |-> 0, lines |-> <<>>,
              before |-> data, beforeStamp |-> dataStamp,
              beforeSuccess |-> last_update_success,
              beforeException |-> last_exception]

\* Control goes back to whoever awaited the refresh: the scheduler, or the
\* control action, whose next statement is `return success`.
RefreshReturns ==
    /\ pc' = "idle"
    /\ result' = IF op \in BlockingActions THEN "True" ELSE result
    /\ localData' = None
    /\ localStamp' = NoStamp
    /\ UNCHANGED <<args, deadline, metrics_text, prometheus_enabled, op, params, pending, refresh_id>>

\* `return data`: the coordinator keeps the dict as self.data.
RefreshSucceeds(d, stamp, rfNew) ==
    /\ data' = d
    /\ dataStamp' = stamp
    /\ last_update_success' = TRUE
    /\ UNCHANGED last_exception
    /\ rf' = [rfNew EXCEPT !.state = "success"]
    /\ events' = Append(events, "refresh_success")
    /\ RefreshReturns

\* Mutant: the dict under construction is stored before the function is
\* through, so a failure leaves it behind as the snapshot.
RefreshFailsStoringPartial(exc, cause) ==
    /\ last_exception' = UpdateFailedFor(exc)
    /\ last_update_success' = FALSE
    /\ data' = localData
    /\ dataStamp' = localStamp
    /\ rf' = [rf EXCEPT !.state = "failure", !.cause = cause]
    /\ events' = Append(events, "refresh_failure")
    /\ RefreshReturns

\* An exception reaches the except clauses: UpdateFailed leaves the function,
\* the coordinator records it and keeps self.data.
RefreshFails(exc, cause) ==
    /\ last_exception' = UpdateFailedFor(exc)
    /\ last_update_success' = FALSE
    /\ UNCHANGED <<data, dataStamp>>
    /\ rf' = [rf EXCEPT !.state = "failure", !.cause = cause]
    /\ events' = Append(events, "refresh_failure")
    /\ RefreshReturns

\* The scheduler starts a refresh.
ScheduledRefresh ==
    /\ pc = "idle"
    /\ refresh_id < MaxRefreshes
    /\ op' = "refresh"
    /\ events' = <<"status_request">>
    /\ pending' = FALSE
    /\ result' = "none"
    /\ params' = EmptyDict
    /\ args' = NoArgs
    /\ deadline' = timeout
    /\ BeginRefresh("refresh")
    /\ UNCHANGED <<prometheus_enabled, data, last_update_success,
                   last_exception, dataStamp>>

\* Mutant: the metrics request goes out as soon as the status line is
\* there, while the status body is still being read.
StatusHeadersFanOut ==
    /\ pc = "status_get"
    /\ \E status \in HttpStatuses :
         IF status # 200
         THEN RefreshFails("UpdateFailed", "non200")
         ELSE /\ pc' = "status_json"
              /\ events' = Append(Append(events, "status_200"), "metrics_request")
              /\ rf' = [rf EXCEPT !.mreq = @ + 1]
              /\ UNCHANGED <<args, deadline, metrics_text, prometheus_enabled,
                             data, last_update_success, last_exception, op,
                             localData, result, params, pending, refresh_id,
                             localStamp, dataStamp>>

\* _fetch_status: the response's status line arrives.
StatusHeaders ==
    /\ pc = "status_get"
    /\ \E status \in HttpStatuses :
         IF status # 200
         THEN RefreshFails("UpdateFailed", "non200")
         ELSE /\ pc' = "status_json"
              /\ events' = Append(events, "status_200")
              /\ UNCHANGED <<args, deadline, metrics_text, prometheus_enabled, data, last_update_success,
                             last_exception, op, localData, result, params,
                             pending, rf, refresh_id, localStamp, dataStamp>>

\* The connection fails while the status call is in flight.
StatusError ==
    /\ pc \in StatusAwaits
    /\ RefreshFails("ClientConnectorError", "transport")

\* response.json() returns; the dict is normalised; the metrics request goes
\* out, or with metrics disabled the function returns.
StatusBody ==
    /\ pc = "status_json"
    /\ \E p \in StatusPayloads :
         LET d == NormalizeDisabledGroups(p)
         IN  IF prometheus_enabled
             THEN /\ pc' = "metrics_get"
                  /\ localData' = d
                  /\ localStamp' = [localStamp EXCEPT !.status = refresh_id]
                  /\ rf' = [rf EXCEPT !.payload = p, !.mreq = @ + 1]
                  /\ events' = Append(Append(events, "status_normalised"),
                                      "metrics_request")
                  /\ UNCHANGED <<args, deadline, metrics_text, prometheus_enabled, data, last_update_success,
                                 last_exception, op, result, params, pending,
                                 refresh_id, dataStamp>>
             ELSE RefreshSucceeds(MetricsDisabled(d),
                                  [status |-> refresh_id, metrics |-> refresh_id],
                                  [rf EXCEPT !.payload = p, !.mres = "disabled"])

\* response.json() raises: a content type that is not JSON (a ClientError), a
\* body that is not JSON (a ValueError), or JSON that is no object, on which
\* the normalisation raises TypeError.
StatusBodyRaises ==
    /\ pc = "status_json"
    /\ \E exc \in {"ContentTypeError", "JSONDecodeError", "TypeError"} :
         RefreshFails(exc, IF exc \in ClientErrors THEN "content_type" ELSE "other")

\* The except clause around the metrics fetch, then `return data`.
MetricsFailed(exc, mres) ==
    RefreshSucceeds(MetricsFallback(localData),
                    [localStamp EXCEPT !.metrics = refresh_id],
                    [rf EXCEPT !.mres = mres])

\* _fetch_prometheus_metrics: the response arrives, with its status line
\* and a body.
MetricsHeaders ==
    /\ pc = "metrics_get"
    /\ \E status \in HttpStatuses :
         IF status # 200
         THEN MetricsFailed("UpdateFailed", "non200")
         ELSE \E lines \in MetricsBodies :
              /\ pc' = "metrics_text"
              /\ metrics_text' = RenderText(lines)
              /\ rf' = [rf EXCEPT !.lines = lines]
              /\ events' = Append(events, "metrics_200")
              /\ UNCHANGED <<args, deadline, prometheus_enabled, data,
                             last_update_success, last_exception, op,
                             localData, result, params, pending, refresh_id,
                             localStamp, dataStamp>>

\* The connection fails while the metrics call is in flight.
MetricsError ==
    /\ pc \in MetricsAwaits
    /\ MetricsFailed("ClientConnectorError", "transport")

\* response.text() returns and is parsed, or cannot be decoded.
MetricsBody ==
    /\ pc = "metrics_text"
    /\ \/ RefreshSucceeds(MetricsFetched(localData, metrics_text),
                          [localStamp EXCEPT !.metrics = refresh_id],
                          [rf EXCEPT !.mres = "parsed"])
       \/ MetricsFailed("UnicodeDecodeError", "undecodable")

\* The deadline of _async_update_data expires at the await the refresh is
\* suspended at.  A refresh a control action awaits started later than the
\* action's own timeout block, with the same timeout: there the action's
\* deadline comes first (ActionDeadline).
RefreshDeadline ==
    /\ op = "refresh"
    /\ pc \in RefreshAwaits
    /\ IF pc \in MetricsAwaits /\ InnerExceptCatches("CancelledError")
       THEN MetricsFailed("CancelledError", "deadline")
       ELSE RefreshFails(TimeoutExit("CancelledError"), "deadline")

----------------------------------------------------------------------------
(* The control actions *)

\* `if duration:` / `if groups:`
Truthy(s) == s # NoArg /\ s # ""

\* Mutant: both parameters are always put in the request.
DisableParamsAlways(duration, groups) ==
    Put(Put(EmptyDict, "duration", duration), "groups", groups)

\* The params dict disable_blocking sends.
DisableParams(duration, groups) ==
    LET p1 == IF Truthy(duration) THEN Put(EmptyDict, "duration", duration)
              ELSE EmptyDict
    IN  IF Truthy(groups) THEN Put(p1, "groups", groups) ELSE p1

\* Mutant: refresh_lists under the base timeout like the other actions.
TimeoutOfBase(a) == timeout

\* The seconds each control action gives async_timeout.timeout.
TimeoutOf(a) == IF a = "refresh_lists" THEN timeout * 3 ELSE timeout

\* The except clause of the control actions.
ActionExceptCatches(exc) == exc = "TimeoutError" \/ exc \in ClientErrors

\* What the except clause of the action returns.
FailureResult(a) == IF a = "query_dns" THEN "None" ELSE "False"

\* The coroutine of a control action ends with the value r.
ActionReturns(r) ==
    /\ pc' = "idle"
    /\ result' = r
    /\ UNCHANGED <<args, deadline, metrics_text, prometheus_enabled, data, last_update_success,
                   last_exception, op, params, pending, refresh_id, dataStamp>>

\* The request of a control action goes out, under the timeout block of
\* the action.
CallRemote(a, p) ==
    /\ pc = "idle"
    /\ op' = a
    /\ pc' = "act_request"
    /\ params' = p
    /\ deadline' = TimeoutOf(a)
    /\ result' = "pending"
    /\ events' = <<"call">>
    /\ rf' = NoRefresh
    /\ metrics_text' = NoText
    /\ UNCHANGED <<prometheus_enabled, data, last_update_success,
                   last_exception, localData, pending, refresh_id,
                   localStamp, dataStamp>>

enable_blocking ==
    /\ refresh_id < MaxRefreshes
    /\ args' = NoArgs
    /\ CallRemote("enable_blocking", EmptyDict)

disable_blocking ==
    /\ refresh_id < MaxRefreshes
    /\ \E duration \in Durations, groups \in Groups :
         /\ args' = [duration |-> duration, groups |-> groups]
         /\ CallRemote("disable_blocking", DisableParams(duration, groups))

refresh_lists ==
    /\ args' = NoArgs
    /\ CallRemote("refresh_lists", EmptyDict)

flush_cache ==
    /\ args' = NoArgs
    /\ CallRemote("flush_cache", EmptyDict)

query_dns ==
    /\ args' = NoArgs
    /\ CallRemote("query_dns", EmptyDict)

\* Mutant: `return success` right after the response, no delay, no refresh.
BlockingResponseNoRefresh ==
    /\ op \in {"enable_blocking", "disable_blocking"}
    /\ pc = "act_request"
    /\ \E status \in {200, 404, 500} :
         /\ events' = Append(events, IF status = 200 THEN "response_200"
                                     ELSE "response_non200")
         /\ pc' = "idle"
         /\ result' = IF status = 200 THEN "True" ELSE "False"
         /\ UNCHANGED <<args, deadline, metrics_text, prometheus_enabled, data, last_update_success,
                        last_exception, op, params, pending, refresh_id,
                        dataStamp, localData, rf, localStamp>>

\* enable_blocking / disable_blocking: the response arrives;
\* success = response.status == 200.
BlockingResponse ==
    /\ op \in BlockingActions
    /\ pc = "act_request"
    /\ \E status \in HttpStatuses :
         LET success == status = 200
         IN  IF success
             THEN /\ pc' = "act_sleep"
                  /\ events' = Append(events, "response_200")
                  /\ UNCHANGED <<args, deadline, metrics_text, prometheus_enabled, data, last_update_success,
                                 last_exception, op, localData, result, params,
                                 pending, rf, refresh_id, localStamp, dataStamp>>
             ELSE /\ events' = Append(events, "response_non200")
                  /\ ActionReturns("False")
                  /\ UNCHANGED <<localData, rf, localStamp>>

\* asyncio.sleep(0.5) is over and async_request_refresh() is called: the
\* refresh runs inside the call, or the debouncer holds the request for the
\* end of its cooldown and the call returns at once.
SettleDelay ==
    /\ op \in BlockingActions
    /\ pc = "act_sleep"
    /\ \/ /\ events' = Append(Append(Append(events, "delay_elapsed"),
                                     "refresh_request"), "status_request")
          /\ BeginRefresh(op)
          /\ UNCHANGED <<args, deadline, prometheus_enabled, data, last_update_success,
                         last_exception, op, result, params, pending, dataStamp>>
       \/ /\ events' = Append(Append(events, "delay_elapsed"), "refresh_request")
          /\ pending' = TRUE
          /\ pc' = "idle"
          /\ result' = "True"
          /\ UNCHANGED <<args, deadline, metrics_text, prometheus_enabled, data, last_update_success,
                         last_exception, op, localData, params, rf, refresh_id,
                         localStamp, dataStamp>>

\* refresh_lists / flush_cache: return response.status == 200
PostResponse ==
    /\ op \in PostActions
    /\ pc = "act_request"
    /\ \E status \in HttpStatuses :
         /\ events' = Append(events, IF status = 200 THEN "response_200"
                                     ELSE "response_non200")
         /\ ActionReturns(IF status = 200 THEN "True" ELSE "False")
         /\ UNCHANGED <<localData, rf, localStamp>>

\* query_dns: the response arrives.
QueryResponse ==
    /\ op = "query_dns"
    /\ pc = "act_request"
    /\ \E status \in HttpStatuses :
         IF status = 200
         THEN /\ pc' = "act_json"
              /\ events' = Append(events, "response_200")
              /\ UNCHANGED <<args, deadline, metrics_text, prometheus_enabled, data, last_update_success,
                             last_exception, op, localData, result, params,
                             pending, rf, refresh_id, localStamp, dataStamp>>
         ELSE /\ events' = Append(events, "response_non200")
              /\ ActionReturns("None")
              /\ UNCHANGED <<localData, rf, localStamp>>

\* query_dns: response.json() returns the body, or raises.
QueryBody ==
    /\ op = "query_dns"
    /\ pc = "act_json"
    /\ \/ /\ events' = Append(events, "body")
          /\ ActionReturns("response")
       \/ \E exc \in {"ContentTypeError", "JSONDecodeError"} :
            /\ events' = Append(events, exc)
            /\ ActionReturns(IF ActionExceptCatches(exc)
                             THEN FailureResult(op) ELSE "raised")
    /\ UNCHANGED <<localData, rf, localStamp>>

\* The connection fails while the action's own call is in flight.
ActionError ==
    /\ op \in ControlActions
    /\ pc \in {"act_request", "act_json"}
    /\ events' = Append(events, "ClientConnectorError")
    /\ ActionReturns(IF ActionExceptCatches("ClientConnectorError")
                     THEN FailureResult(op) ELSE "raised")
    /\ UNCHANGED <<localData, rf, localStamp>>

\* The deadline of the action's timeout block expires at the await the
\* coroutine is suspended at: its own call, the settling delay, or a call of
\* the refresh it awaits, which is cancelled with it.
ActionDeadline ==
    /\ op \in ControlActions
    /\ pc \in {"act_request", "act_json", "act_sleep"} \cup RefreshAwaits
    /\ events' = Append(events, "deadline")
    /\ ActionReturns(IF ActionExceptCatches(TimeoutExit("CancelledError"))
                     THEN FailureResult(op) ELSE "raised")
    /\ localData' = None
    /\ localStamp' = NoStamp
    /\ rf' = IF pc \in RefreshAwaits THEN [rf EXCEPT !.state = "cancelled"]
             ELSE rf

----------------------------------------------------------------------------
Next ==
    \/ ScheduledRefresh
    \/ StatusHeaders
    \/ StatusError
    \/ StatusBody
    \/ StatusBodyRaises
    \/ MetricsHeaders
    \/ MetricsError
    \/ MetricsBody
    \/ RefreshDeadline
    \/ enable_blocking
    \/ disable_blocking
    \/ refresh_lists
    \/ flush_cache
    \/ query_dns
    \/ BlockingResponse
    \/ SettleDelay
    \/ PostResponse
    \/ QueryResponse
    \/ QueryBody
    \/ ActionError
    \/ ActionDeadline

Spec == Init /\ [][Next]_vars

----------------------------------------------------------------------------
(* The parser on its own: a refresh has received the metrics response, with *)
(* any body of ParserBodies; MetricsBody parses it.                         *)

ParserInit ==
    /\ prometheus_enabled = TRUE
    /\ data = None
    /\ last_update_success = TRUE
    /\ last_exception = NoException
    /\ op = "refresh"
    /\ pc = "metrics_text"
    /\ localData = NormalizeDisabledGroups(Payload(JTrue, JNull))
    /\ result = "none"
    /\ params = EmptyDict
    /\ args = NoArgs
    /\ deadline = timeout
    /\ pending = FALSE
    /\ events = <<"status_request", "status_200", "status_normalised",
                  "metrics_request", "metrics_200">>
    /\ \E lines \in ParserBodies :
         /\ metrics_text = RenderText(lines)
         /\ rf = [NoRefresh EXCEPT !.state = "running", !.owner = "refresh",
                                   !.payload = Payload(JTrue, JNull),
                                   !.mreq = 1, !.lines = lines]
    /\ refresh_id = 1
    /\ localStamp = [status |-> 1, metrics |-> 0]
    /\ dataStamp = NoStamp

ParserNext == MetricsBody

SpecParser == ParserInit /\ [][ParserNext]_vars

----------------------------------------------------------------------------
(* The metric sensors (sensor.py) reading the coordinator *)

\* Mutant: the outcome of the last refresh is not looked at.
AvailableWhateverTheOutcome ==
    /\ prometheus_enabled
    /\ data # None
    /\ "prometheus" \in DOMAIN data

\* BlockyPrometheusBaseSensor.available
Available ==
    /\ prometheus_enabled
    /\ last_update_success
    /\ data # None
    /\ "prometheus" \in DOMAIN data

\* d.get(k, default)
Get(d, k, default) == IF k \in DOMAIN d THEN d[k] ELSE default

\* isinstance(value, (int, float))
IsNumber(v) == v.t \in {"int", "float"}

Hundredths(v) == IF v.t = "int" THEN v.n * 100 ELSE v.n

\* a + b on numbers: an int of two ints, else a float
Add(a, b) ==
    IF a.t = "int" /\ b.t = "int" THEN IntValue(a.n + b.n)
    ELSE FloatValue(Hundredths(a) + Hundredths(b))

\* sum(item["value"] for item in metric_data if isinstance(...)), acc the
\* sum so far
RECURSIVE SumNumeric(_, _)
SumNumeric(metric_data, acc) ==
    IF metric_data = <<>> THEN acc
    ELSE SumNumeric(Tail(metric_data),
                    IF IsNumber(Head(metric_data).value)
                    THEN Add(acc, Head(metric_data).value) ELSE acc)

\* Mutant: the values are summed also when there is one sample.
NoFilterValueSummed(metric_data) == SumNumeric(metric_data, IntValue(0))

\* Mutant: the first value is returned whatever the number of samples.
NoFilterValueFirst(metric_data) == metric_data[1].value

\* get_metric_value without a filter: the value of the only sample, or the
\* sum of the numeric values
NoFilterValue(metric_data) ==
    IF Len(metric_data) = 1 THEN metric_data[1].value
    ELSE SumNumeric(metric_data, IntValue(0))

\* Mutant: a sample matches when it agrees with the filter on some key.
MatchesSomeKey(item, labels_filter) ==
    \E k \in DOMAIN labels_filter :
        k \in DOMAIN item.labels /\ item.labels[k] = labels_filter[k]

\* all(item["labels"].get(k) == v for k, v in labels_filter.items())
Matches(item, labels_filter) ==
    \A k \in DOMAIN labels_filter :
        k \in DOMAIN item.labels /\ item.labels[k] = labels_filter[k]

\* get_metric_value with a filter: the loop returns at the first sample
\* that matches, None after the loop
FilteredValue(metric_data, labels_filter) ==
    LET hits == { i \in DOMAIN metric_data :
                    Matches(metric_data[i], labels_filter) }
    IN  IF hits = {} THEN None
        ELSE metric_data[CHOOSE i \in hits : \A j \in hits : i <= j].value

\* `if not labels_filter` is false: a filter that is not None and not empty
FilterGiven(labels_filter) == labels_filter # None /\ labels_filter # EmptyDict

\* BlockyPrometheusBaseSensor.get_metric_value
GetMetricValue(metric_name, labels_filter) ==
    IF ~Available THEN None
    ELSE LET metric_data == Get(Get(data, "prometheus", EmptyDict),
                                metric_name, <<>>)
         IN  IF metric_data = <<>> THEN None
             ELSE IF ~FilterGiven(labels_filter) THEN NoFilterValue(metric_data)
             ELSE FilteredValue(metric_data, labels_filter)

\* An exception leaves the property.
Raised(exc) == [raised |-> exc]

\* if k not in bucket: bucket[k] = 0
\* bucket[k] += value
Accumulate(bucket, k, value) ==
    Put(bucket, k, Add(Get(bucket, k, IntValue(0)), value))

\* str.lower() on the label values of the bodies
Lower(str) ==
    CASE str = "BLOCKED" -> "blocked"
      [] str = "CACHED" -> "cached"
      [] str = "Cached" -> "cached"
      [] OTHER -> str

\* The loop of BlockyQueryTotalSensor.extra_state_attributes: `+= value`
\* raises TypeError on a value that is a str.
RECURSIVE QueryTotalLoop(_, _)
QueryTotalLoop(metric_data, attributes) ==
    IF metric_data = <<>> THEN attributes
    ELSE LET item == Head(metric_data)
             client == Get(item.labels, "client", "unknown")
             dns_type == Get(item.labels, "type", "unknown")
         IN  IF ~IsNumber(item.value) THEN Raised("TypeError")
             ELSE QueryTotalLoop(Tail(metric_data),
                    [attributes EXCEPT
                       !.by_client = Accumulate(@, client, item.value),
                       !.by_type = Accumulate(@, dns_type, item.value)])

\* The loop of BlockyResponseTotalSensor.extra_state_attributes.
RECURSIVE ResponseTotalLoop(_, _)
ResponseTotalLoop(metric_data, attributes) ==
    IF metric_data = <<>> THEN attributes
    ELSE LET item == Head(metric_data)
             response_type == Get(item.labels, "response_type", "unknown")
             reason == Get(item.labels, "reason", "unknown")
         IN  IF ~IsNumber(item.value) THEN Raised("TypeError")
             ELSE ResponseTotalLoop(Tail(metric_data),
                    [attributes EXCEPT
                       !.by_response_type = Accumulate(@, response_type, item.value),
                       !.by_reason = Accumulate(@, reason, item.value),
                       !.blocked = IF Lower(response_type) = "blocked"
                                   THEN Add(@, item.value) ELSE @,
                       !.cached = IF Lower(response_type) = "cached"
                                  THEN Add(@, item.value) ELSE @])

\* The samples a sensor of the metric reads its attributes from.
MetricData(metric_name) ==
    Get(Get(data, "prometheus", EmptyDict), metric_name, <<>>)

\* BlockyQueryTotalSensor.extra_state_attributes
QueryTotalAttributes ==
    IF ~Available THEN EmptyDict
    ELSE QueryTotalLoop(MetricData("blocky_query_total"),
                        [by_client |-> EmptyDict, by_type |-> EmptyDict])

\* BlockyResponseTotalSensor.extra_state_attributes
ResponseTotalAttributes ==
    IF ~Available THEN EmptyDict
    ELSE ResponseTotalLoop(MetricData("blocky_response_total"),
                           [by_response_type |-> EmptyDict,
                            by_reason |-> EmptyDict,
                            blocked |-> IntValue(0), cached |-> IntValue(0)])

\* The coordinator as a refresh has left it: the last one succeeded and the
\* snapshot has the samples of its body, or it failed and an earlier
\* snapshot is kept.
SensorInit ==
    /\ prometheus_enabled = TRUE
    /\ last_update_success \in BOOLEAN
    /\ last_exception = IF last_update_success THEN NoException
                        ELSE UpdateFailedFor("TimeoutError")
    /\ \E lines \in SensorBodies :
         /\ data = MetricsFetched(NormalizeDisabledGroups(Payload(JTrue, JNull)),
                                  RenderText(lines))
         /\ metrics_text = IF last_update_success THEN RenderText(lines)
                           ELSE NoText
         /\ rf = IF last_update_success
                 THEN [NoRefresh EXCEPT !.state = "success", !.owner = "refresh",
                                        !.payload = Payload(JTrue, JNull),
                                        !.mres = "parsed", !.mreq = 1,
                                        !.lines = lines]
                 ELSE [NoRefresh EXCEPT !.state = "failure", !.owner = "refresh",
                                        !.cause = "deadline", !.before = data,
                                        !.beforeStamp = [status |-> 1, metrics |-> 1],
                                        !.beforeException = NoException]
    /\ op = "refresh"
    /\ pc = "idle"
    /\ localData = None
    /\ result = "none"
    /\ params = EmptyDict
    /\ args = NoArgs
    /\ deadline = timeout
    /\ pending = FALSE
    /\ events = IF last_update_success
                THEN <<"status_request", "status_200", "status_normalised",
                       "metrics_request", "metrics_200", "refresh_success">>
                ELSE <<"status_request", "refresh_failure">>
    /\ refresh_id = IF last_update_success THEN 1 ELSE 2
    /\ localStamp = NoStamp
    /\ dataStamp = [status |-> 1, metrics |-> 1]

\* A property of a sensor is read: the coordinator is left as it is.
SensorReads(property, a, value) ==
    /\ pc = "idle"
    /\ op' = property
    /\ args' = a
    /\ result' = value
    /\ UNCHANGED <<prometheus_enabled, data, last_update_success,
                   last_exception, pc, localData, params, deadline,
                   metrics_text, pending, events, rf, refresh_id, localStamp,
                   dataStamp>>

get_metric_value ==
    \E metric_name \in SensorMetrics, labels_filter \in LabelFilters :
        SensorReads("get_metric_value",
                    [metric_name |-> metric_name, labels_filter |-> labels_filter],
                    GetMetricValue(metric_name, labels_filter))

query_total_attributes ==
    SensorReads("query_total_attributes",
                [metric_name |-> "blocky_query_total", labels_filter |-> None],
                QueryTotalAttributes)

response_total_attributes ==
    SensorReads("response_total_attributes",
                [metric_name |-> "blocky_response_total", labels_filter |-> None],
                ResponseTotalAttributes)

SensorNext ==
    \/ get_metric_value
    \/ query_total_attributes
    \/ response_total_attributes

SpecSensor == SensorInit /\ [][SensorNext]_vars

----------------------------------------------------------------------------
(* The setup step of the config flow (config_flow.py), before a coordinator *)
(* exists: async_step_user awaits validate_input.                           *)

\* The input the user submits: the flag the entry, and with it the
\* coordinator, is given.
UserInput == [prometheus_enabled |-> prometheus_enabled]

\* What async_step_user returns: the form with errors["base"], or the entry.
ShowForm(base) == [type |-> "form", base |-> base]
CreateEntry == [type |-> "create_entry", base |-> ""]

\* The except clauses around the status request of validate_input:
\* `except aiohttp.ClientError` and `except Exception` both raise
\* CannotConnect, whatever was raised inside, CannotConnect and
\* InvalidResponse included.
StatusTryExit(exc) ==
    IF exc \in ClientErrors THEN "CannotConnect" ELSE "CannotConnect"

\* The except clause around the metrics request: only aiohttp.ClientError
\* is caught.
MetricsTryExit(exc) == IF exc \in ClientErrors THEN "CannotConnect" ELSE exc

\* The except clauses of async_step_user.
ErrorFor(exc) ==
    IF exc = "CannotConnect" THEN "cannot_connect"
    ELSE IF exc = "InvalidResponse" THEN "invalid_response"
    ELSE "unknown"

\* async_step_user is through: it returns r.
StepReturns(r, seen) ==
    /\ pc' = "idle"
    /\ result' = r
    /\ events' = Append(events, seen)
    /\ UNCHANGED <<prometheus_enabled, data, last_update_success,
                   last_exception, op, params, args, deadline, metrics_text,
                   pending, rf, refresh_id, localStamp, dataStamp>>

\* An exception leaves validate_input: the form is shown with its error.
ValidationRaises(exc, seen) ==
    /\ StepReturns(ShowForm(ErrorFor(exc)), seen)
    /\ UNCHANGED localData

\* validate_input returns; the unique id is set and the entry is created,
\* unless the host is configured already: AbortFlow is raised inside the
\* try and `except Exception` takes it.
ValidationReturns ==
    \/ StepReturns(CreateEntry, "validated")
    \/ StepReturns(ShowForm(ErrorFor("AbortFlow")), "already_configured")

\* The step is entered: without input the form is shown, with input the
\* status request of validate_input goes out.
async_step_user ==
    /\ pc = "idle"
    /\ op \in {"none", "async_step_user"}
    /\ op' = "async_step_user"
    /\ localData' = None
    /\ \/ /\ args' = None
          /\ pc' = "idle"
          /\ result' = ShowForm("")
          /\ events' = <<>>
       \/ /\ args' = UserInput
          /\ pc' = "status_get"
          /\ result' = "pending"
          /\ events' = <<"status_request">>
    /\ UNCHANGED <<prometheus_enabled, data, last_update_success,
                   last_exception, params, deadline, metrics_text, pending,
                   rf, refresh_id, localStamp, dataStamp>>

\* validate_input: the status line of the status response arrives.
ValidateStatusHeaders ==
    /\ op = "async_step_user"
    /\ pc = "status_get"
    /\ \E status \in HttpStatuses :
         IF status # 200
         THEN ValidationRaises(StatusTryExit("CannotConnect"), "status_non200")
         ELSE /\ pc' = "status_json"
              /\ events' = Append(events, "status_200")
              /\ UNCHANGED <<prometheus_enabled, data, last_update_success,
                             last_exception, op, localData, result, params,
                             args, deadline, metrics_text, pending, rf,
                             refresh_id, localStamp, dataStamp>>

\* validate_input: response.json() returns; the body is looked at, and with
\* metrics enabled the metrics request goes out.
ValidateStatusBody ==
    /\ op = "async_step_user"
    /\ pc = "status_json"
    /\ \E p \in StatusPayloads :
         /\ localData' = p
         /\ IF ATTR_ENABLED \notin DOMAIN p
            THEN StepReturns(ShowForm(ErrorFor(StatusTryExit("InvalidResponse"))),
                             "body_without_enabled")
            ELSE IF args.prometheus_enabled
            THEN /\ pc' = "metrics_get"
                 /\ events' = Append(Append(events, "body_with_enabled"),
                                     "metrics_request")
                 /\ UNCHANGED <<prometheus_enabled, data, last_update_success,
                                last_exception, op, result, params, args,
                                deadline, metrics_text, pending, rf,
                                refresh_id, localStamp, dataStamp>>
            ELSE ValidationReturns

\* validate_input: response.json() raises, or the JSON is a number, on
\* which `in` raises TypeError.
ValidateStatusBodyRaises ==
    /\ op = "async_step_user"
    /\ pc = "status_json"
    /\ \E exc \in {"ContentTypeError", "JSONDecodeError", "TypeError"} :
         ValidationRaises(StatusTryExit(exc), "body_unreadable")

\* validate_input: the connection fails while the status call is in flight.
ValidateStatusError ==
    /\ op = "async_step_user"
    /\ pc \in StatusAwaits
    /\ ValidationRaises(StatusTryExit("ClientConnectorError"),
                        "status_unreachable")

\* validate_input: the status line of the metrics response arrives.
ValidateMetricsHeaders ==
    /\ op = "async_step_user"
    /\ pc = "metrics_get"
    /\ \E status \in HttpStatuses :
         IF status # 200
         THEN ValidationRaises(MetricsTryExit("CannotConnect"), "metrics_non200")
         ELSE ValidationReturns /\ UNCHANGED localData

\* validate_input: the connection fails while the metrics call is in flight.
ValidateMetricsError ==
    /\ op = "async_step_user"
    /\ pc = "metrics_get"
    /\ ValidationRaises(MetricsTryExit("ClientConnectorError"),
                        "metrics_unreachable")

\* validate_input: the ten seconds of the timeout block around the call in
\* flight are over.
ValidateDeadline ==
    /\ op = "async_step_user"
    /\ pc \in StatusAwaits \cup {"metrics_get"}
    /\ IF pc \in StatusAwaits
       THEN ValidationRaises(StatusTryExit(TimeoutExit("CancelledError")),
                             "status_deadline")
       ELSE ValidationRaises(MetricsTryExit(TimeoutExit("CancelledError")),
                             "metrics_deadline")

ConfigNext ==
    \/ async_step_user
    \/ ValidateStatusHeaders
    \/ ValidateStatusBody
    \/ ValidateStatusBodyRaises
    \/ ValidateStatusError
    \/ ValidateMetricsHeaders
    \/ ValidateMetricsError
    \/ ValidateDeadline

SpecConfig == Init /\ [][ConfigNext]_vars

----------------------------------------------------------------------------
(* The setup of the sensor platform (async_setup_entry of sensor.py), which *)
(* the integration forwards to after the first refresh has succeeded.       *)

\* The sensors built whatever the configuration, in the order of the list.
StatusSensorClasses ==
    << "BlockyStatusSensor", "BlockyAutoEnableTimerSensor",
       "BlockyDisabledGroupsSensor" >>

\* The sensors built with metrics enabled, in the order of the list.
MetricSensorClasses ==
    << "BlockyCacheEntriesSensor", "BlockyCacheHitsSensor",
       "BlockyCacheMissesSensor", "BlockyErrorTotalSensor",
       "BlockyQueryTotalSensor", "BlockyResponseTotalSensor",
       "BlockyPrefetchesTotalSensor", "BlockyPrefetchHitsSensor",
       "BlockyFailedDownloadsSensor", "BlockyLastListRefreshSensor",
       "BlockyDenylistCacheSensor", "BlockyAllowlistCacheSensor",
       "BlockyPrefetchDomainCacheSensor" >>

\* The key of the allow-list table the __init__ of each class looks up.
SensorKey(class) ==
    CASE class = "BlockyCacheEntriesSensor" -> "cache_entries"
      [] class = "BlockyCacheHitsSensor" -> "cache_hits_total"
      [] class = "BlockyCacheMissesSensor" -> "cache_miss_count"
      [] class = "BlockyErrorTotalSensor" -> "error_total"
      [] class = "BlockyQueryTotalSensor" -> "query_total"
      [] class = "BlockyResponseTotalSensor" -> "response_total"
      [] class = "BlockyPrefetchesTotalSensor" -> "prefetches_total"
      [] class = "BlockyPrefetchHitsSensor" -> "prefetch_hits_total"
      [] class = "BlockyFailedDownloadsSensor" -> "failed_downloads_total"
      [] class = "BlockyLastListRefreshSensor" -> "last_list_group_refresh"
      [] class = "BlockyDenylistCacheSensor" -> "denylist_cache_entries"
      [] class = "BlockyAllowlistCacheSensor" -> "allowlist_cache_entries"
      [] class = "BlockyPrefetchDomainCacheSensor" ->
             "prefetch_domain_cache_entries"

\* A sensor that has been built.
Entity(class, metric_name) == [class |-> class, metric_name |-> metric_name]

\* The status sensors.
RECURSIVE StatusSensors(_)
StatusSensors(classes) ==
    IF classes = <<>> THEN <<>>
    ELSE <<Entity(Head(classes), "")>> \o StatusSensors(Tail(classes))

\* The list given to sensors.extend is built element by element:
\* PROMETHEUS_METRICS[key] in the __init__ of a class raises KeyError when
\* the table has no such key, and the list is never finished.
RECURSIVE BuildMetricSensors(_, _)
BuildMetricSensors(classes, sensors) ==
    IF classes = <<>> THEN sensors
    ELSE IF SensorKey(Head(classes)) \notin DOMAIN PROMETHEUS_METRICS_TABLE
         THEN Raised("KeyError")
    ELSE BuildMetricSensors(Tail(classes),
             Append(sensors,
                    Entity(Head(classes),
                           PROMETHEUS_METRICS_TABLE[SensorKey(Head(classes))])))

\* What async_setup_entry ends with: the entities given to
\* async_add_entities, or the exception that leaves it.
SetupOutcome ==
    LET sensors == IF prometheus_enabled
                   THEN BuildMetricSensors(MetricSensorClasses,
                                           StatusSensors(StatusSensorClasses))
                   ELSE StatusSensors(StatusSensorClasses)
    IN  IF sensors = Raised("KeyError") THEN sensors
        ELSE [added |-> sensors]

\* The coordinator as its first refresh has left it, when that succeeded.
SetupInit ==
    /\ prometheus_enabled \in BOOLEAN
    /\ last_update_success = TRUE
    /\ last_exception = NoException
    /\ \E p \in StatusPayloads, lines \in MetricsBodies :
         /\ data = IF prometheus_enabled
                   THEN MetricsFetched(NormalizeDisabledGroups(p),
                                       RenderText(lines))
                   ELSE MetricsDisabled(NormalizeDisabledGroups(p))
         /\ metrics_text = IF prometheus_enabled THEN RenderText(lines)
                           ELSE NoText
         /\ rf = [NoRefresh EXCEPT
                    !.state = "success", !.owner = "refresh", !.payload = p,
                    !.mres = IF prometheus_enabled THEN "parsed" ELSE "disabled",
                    !.mreq = IF prometheus_enabled THEN 1 ELSE 0,
                    !.lines = IF prometheus_enabled THEN lines ELSE <<>>]
    /\ op = "refresh"
    /\ pc = "idle"
    /\ localData = None
    /\ result = "none"
    /\ params = EmptyDict
    /\ args = NoArgs
    /\ deadline = timeout
    /\ pending = FALSE
    /\ events = IF prometheus_enabled
                THEN <<"status_request", "status_200", "status_normalised",
                       "metrics_request", "metrics_200", "refresh_success">>
                ELSE <<"status_request", "status_200", "refresh_success">>
    /\ refresh_id = 1
    /\ localStamp = NoStamp
    /\ dataStamp = [status |-> 1, metrics |-> 1]

\* sensor.py async_setup_entry, run once for the entry.
async_setup_entry ==
    /\ pc = "idle"
    /\ op = "refresh"
    /\ op' = "async_setup_entry"
    /\ result' = SetupOutcome
    /\ UNCHANGED <<prometheus_enabled, data, last_update_success,
                   last_exception, pc, localData, params, args, deadline,
                   metrics_text, pending, events, rf, refresh_id, localStamp,
                   dataStamp>>

SetupNext == async_setup_entry

SpecSetup == SetupInit /\ [][SetupNext]_vars

----------------------------------------------------------------------------
(* Properties *)

\* The failure class a recorded UpdateFailed stands for, by its message.
FailureClass(e) ==
    IF e.msg = "Timeout communicating with API" THEN "Timeout"
    ELSE IF e.msg = "Error communicating with API" THEN "TransportError"
    ELSE IF e.msg = "API returned" THEN "BadStatus"
    ELSE IF e.msg = "Unexpected error" THEN "Unexpected"
    ELSE "none"

\* A snapshot with every field a reader relies on.
SnapshotComplete(d) ==
    /\ ATTR_DISABLED_GROUPS \in DOMAIN d
    /\ d[ATTR_DISABLED_GROUPS].t = "list"
    /\ "prometheus" \in DOMAIN d

\* The status fields of d other than disabledGroups are those of payload p.
StatusFieldsFrom(d, p) ==
    /\ DOMAIN d = (DOMAIN p) \cup {ATTR_DISABLED_GROUPS, "prometheus"}
    /\ \A k \in (DOMAIN p) \ {ATTR_DISABLED_GROUPS} : d[k] = p[k]

\* Number of occurrences of e in the history h.
Count(h, e) == Cardinality({i \in DOMAIN h : h[i] = e})

\* Every occurrence of b in h comes after an occurrence of a.
Before(h, a, b) ==
    \A j \in DOMAIN h : h[j] = b => \E i \in 1..(j - 1) : h[i] = a

C2_StatusTimeout ==
    (rf.state = "failure" /\ rf.cause = "deadline" /\ rf.mreq = 0) =>
        /\ FailureClass(last_exception) = "Timeout"
        /\ ~last_update_success
        /\ data = rf.before

C2_Witness ==
    /\ rf.state = "failure"
    /\ rf.cause = "deadline"
    /\ rf.mreq = 0
    /\ rf.before # None

\* C3: in a snapshot a successful refresh installed, disabledGroups is the
\* payload's list when the payload has a list there, and the empty list when
\* the payload's disabledGroups is absent, null or no list.
C3_DisabledGroupsList ==
    /\ data # None => data[ATTR_DISABLED_GROUPS].t = "list"
    /\ rf.state = "success" =>
         LET p == rf.payload
             had == ATTR_DISABLED_GROUPS \in DOMAIN p
         IN  IF had /\ p[ATTR_DISABLED_GROUPS].t = "list"
             THEN data[ATTR_DISABLED_GROUPS] = p[ATTR_DISABLED_GROUPS]
             ELSE data[ATTR_DISABLED_GROUPS] = JList(<<>>)

\* A payload whose disabledGroups is a string has been normalised.
C3_Witness ==
    /\ rf.state = "success"
    /\ ATTR_DISABLED_GROUPS \in DOMAIN rf.payload
    /\ rf.payload[ATTR_DISABLED_GROUPS] = JStr("ads")

\* C4: every snapshot has a metrics entry; with metrics disabled the entry is
\* the empty MetricSet and no metrics request ever goes out.
C4_MetricsEntry ==
    /\ data # None => "prometheus" \in DOMAIN data
    /\ ~prometheus_enabled =>
         /\ data # None => data["prometheus"] = EmptyDict
         /\ rf.mreq = 0
         /\ Count(events, "metrics_request") = 0
         /\ pc \notin MetricsAwaits

C4_Witness ==
    /\ ~prometheus_enabled
    /\ rf.state = "success"
    /\ data # None

\* C5 (as claimed): with metrics enabled, a refresh whose status call
\* succeeded ends in success whatever happens to the metrics fetch, a deadline
\* included, and a failed metrics fetch gives the empty MetricSet.
C5_MetricsBestEffort ==
    (prometheus_enabled /\ rf.mreq = 1 /\ rf.state \in {"success", "failure"}) =>
        /\ rf.state = "success"
        /\ StatusFieldsFrom(data, rf.payload)
        /\ rf.mres # "parsed" => data["prometheus"] = EmptyDict

\* C6 (as claimed): the failure class recorded is fixed by the cause; a
\* non-200 status response is recorded as BadStatus.
C6_FailureTaxonomy ==
    rf.state = "failure" =>
        /\ rf.cause = "deadline" => FailureClass(last_exception) = "Timeout"
        /\ rf.cause = "transport" => FailureClass(last_exception) = "TransportError"
        /\ rf.cause = "non200" => FailureClass(last_exception) = "BadStatus"
        /\ rf.cause = "other" => FailureClass(last_exception) = "Unexpected"

\* A call of enable_blocking or disable_blocking has ended.
BlockingEnded == op \in BlockingActions /\ pc = "idle"

\* C7 (as claimed): enable_blocking / disable_blocking return true exactly
\* when the remote call answered 200.
C7_TrueIffOk ==
    BlockingEnded => (result = "True" <=> Count(events, "response_200") = 1)

\* C8 (as claimed): a call whose remote call answered 200 requests exactly
\* one refresh, after the response and after the settling delay.
C8_OneRefreshAfterDelay ==
    (BlockingEnded /\ Count(events, "response_200") = 1) =>
        /\ Count(events, "refresh_request") = 1
        /\ Before(events, "response_200", "delay_elapsed")
        /\ Before(events, "delay_elapsed", "refresh_request")

\* C9 (as claimed): a call that returned false has requested no refresh.
C9_FalseNoRefresh ==
    (BlockingEnded /\ result = "False") =>
        /\ Count(events, "refresh_request") = 0
        /\ rf.state = "none"

----------------------------------------------------------------------------
(* Properties of the control actions *)

\* C11 (as claimed): no control action raises to its caller: each ends with
\* true or false, or with the response or null for query_dns.
C11_NeverRaises ==
    (op \in ControlActions /\ pc = "idle") =>
        /\ result # "raised"
        /\ result \in (IF op = "query_dns" THEN {"response", "None"}
                       ELSE {"True", "False"})

\* A call of refresh_lists or flush_cache leaves the snapshot, the success
\* flag and the recorded failure alone, in every step from its start on.
PostActionFrame ==
    op' \in PostActions =>
        /\ data' = data
        /\ last_update_success' = last_update_success
        /\ last_exception' = last_exception
        /\ dataStamp' = dataStamp

\* C12: refresh_lists and flush_cache return true exactly when their POST
\* answered 200 before the deadline, which is 3 times the base timeout for
\* refresh_lists and the base timeout for flush_cache; else they return
\* false; and they never change snapshot, success flag or failure reason.
C12_PostActions ==
    /\ [](op \in PostActions =>
            /\ deadline = (IF op = "refresh_lists" THEN 3 * DEFAULT_TIMEOUT
                           ELSE DEFAULT_TIMEOUT)
            /\ pc = "idle" =>
                 /\ result \in {"True", "False"}
                 /\ result = "True" <=> events = <<"call", "response_200">>)
    /\ [][PostActionFrame]_vars

\* flush_cache has failed while a snapshot was held.
C12_Witness ==
    /\ op = "flush_cache"
    /\ pc = "idle"
    /\ result = "False"
    /\ data # None

\* An argument that carries a value: None and the empty string carry none.
Provided(x) == x # NoArg /\ x # ""

\* C13: the request of disable_blocking has a duration parameter exactly when
\* a duration was given, and a groups parameter exactly when groups were
\* given, each with the value given; no parameter is sent empty.
C13_ParamsOnlyWhenProvided ==
    op = "disable_blocking" =>
        /\ DOMAIN params \subseteq {"duration", "groups"}
        /\ "duration" \in DOMAIN params <=> Provided(args.duration)
        /\ "groups" \in DOMAIN params <=> Provided(args.groups)
        /\ "duration" \in DOMAIN params => params["duration"] = args.duration
        /\ "groups" \in DOMAIN params => params["groups"] = args.groups
        /\ \A k \in DOMAIN params : params[k] \notin {"", NoArg}

\* disable_blocking("5m"), as the buttons call it: duration sent, no groups.
C13_Witness ==
    /\ op = "disable_blocking"
    /\ args = [duration |-> "5m", groups |-> NoArg]
    /\ DOMAIN params = {"duration"}
    /\ pc = "act_sleep"

\* The metrics the parser made of the body received are the snapshot's.
Parsed == pc = "idle" /\ rf.state = "success" /\ rf.mres = "parsed"

\* A sample line of a metric of the allow-list.
Recognised(l) == l.wellformed /\ l.name \in PROMETHEUS_METRICS

\* Number of samples in a MetricSet.
SampleCount(metrics) ==
    Cardinality(UNION { { <<n, i>> : i \in DOMAIN metrics[n] } :
                        n \in DOMAIN metrics })

\* C14: whatever the text, the MetricSet the parser makes has only names of
\* the allow-list as keys, and blank lines, comment lines, lines that are
\* not of the form name [labels] value and lines of an unrecognised or
\* missing name add no sample: there are as many samples as sample lines of
\* recognised names, and each other line, parsed alone, gives the empty
\* MetricSet.
C14_OnlyAllowListed ==
    Parsed =>
        /\ metrics_text = RenderText(rf.lines)
        /\ DOMAIN data["prometheus"] \subseteq PROMETHEUS_METRICS
        /\ SampleCount(data["prometheus"])
             = Cardinality({ i \in DOMAIN rf.lines : Recognised(rf.lines[i]) })
        /\ \A i \in DOMAIN rf.lines :
             ~Recognised(rf.lines[i]) =>
                 _parse_prometheus_metrics(RenderLine(rf.lines[i])) = EmptyDict

\* A body with a line of an unrecognised name and a line that is no sample
\* line has been parsed.
C14_Witness ==
    /\ Parsed
    /\ \E i \in DOMAIN rf.lines :
         rf.lines[i].wellformed /\ rf.lines[i].name \notin PROMETHEUS_METRICS
    /\ \E i \in DOMAIN rf.lines :
         ~rf.lines[i].wellformed /\ rf.lines[i].raw # <<>>

\* The labels mapping a sample line stands for: every key to its value.
RECURSIVE ExpectedLabels(_)
ExpectedLabels(ls) ==
    IF ls = <<>> THEN EmptyDict
    ELSE Put(ExpectedLabels(SubSeq(ls, 1, Len(ls) - 1)),
             ls[Len(ls)].key, Concat(ls[Len(ls)].val))

\* The sample lines of name n, in the order of the body.
LinesOf(lines, n) == SelectSeq(lines, LAMBDA l : l.wellformed /\ l.name = n)

\* C15: every sample line `name{labels} value` of a recognised name gives
\* exactly one Sample under the name, the samples of a name are in the order
\* of their lines, and the labels of each map every key of the line's label
\* block to its value, blanks and double quotes around it removed.
C15_OneSamplePerLine ==
    Parsed =>
        \A n \in PROMETHEUS_METRICS :
            LET of == LinesOf(rf.lines, n)
                samples == IF n \in DOMAIN data["prometheus"]
                           THEN data["prometheus"][n] ELSE <<>>
            IN  /\ Len(samples) = Len(of)
                /\ \A i \in DOMAIN of :
                     samples[i].labels = ExpectedLabels(of[i].labels)

\* Two sample lines of one name, with labels, have been parsed, and a line
\* whose labels are padded with blanks.
C15_Witness ==
    /\ Parsed
    /\ Len(rf.lines) = 2
    /\ rf.lines[1] = QueryLine("y", "A", <<"5">>)
    /\ rf.lines[2] = QueryLine("x", "A", <<"3">>)
    /\ Len(data["prometheus"]["blocky_query_total"]) = 2

\* get_metric_value has been called and the sensor was available.
ValueRead == op = "get_metric_value" /\ Available

\* The sum, in hundredths, of the numeric values among the samples.
RECURSIVE TotalHundredths(_)
TotalHundredths(samples) ==
    IF samples = <<>> THEN 0
    ELSE TotalHundredths(SubSeq(samples, 1, Len(samples) - 1))
         + (IF samples[Len(samples)].value.t \in {"int", "float"}
            THEN Hundredths(samples[Len(samples)].value) ELSE 0)

\* C16: without a label filter (none or an empty one) and with exactly one
\* sample under the metric name, get_metric_value returns the value of that
\* sample as it is: the int, the float, or the raw string of the line.
C16_SingleSampleAsIs ==
    (ValueRead /\ ~FilterGiven(args.labels_filter)
               /\ Len(MetricData(args.metric_name)) = 1) =>
        LET written == LinesOf(rf.lines, args.metric_name)[1].value
        IN  /\ result = MetricData(args.metric_name)[1].value
            /\ written = <<"3">> => result = IntValue(3)
            /\ written = <<"1", ".", "5">> => result = FloatValue(150)
            /\ written = <<"NaN">> => result = StrValue("NaN")

\* The only sample of the name has a raw string as its value and has been
\* read without a filter.
C16_Witness ==
    /\ ValueRead
    /\ args.labels_filter = None
    /\ Len(MetricData(args.metric_name)) = 1
    /\ result = StrValue("NaN")

\* C17: without a label filter and with two or more samples under the
\* name, get_metric_value returns the sum of the numeric values; a sample
\* whose value is a raw string is left out, and nothing is raised.  The
\* spec's example, samples 3 and 5, gives 8.
C17_SumOfNumeric ==
    (ValueRead /\ ~FilterGiven(args.labels_filter)
               /\ Len(MetricData(args.metric_name)) >= 2) =>
        LET samples == MetricData(args.metric_name)
            written == LinesOf(rf.lines, args.metric_name)
        IN  /\ result.t \in {"int", "float"}
            /\ Hundredths(result) = TotalHundredths(samples)
            /\ result.t = "float" <=>
                 \E i \in DOMAIN samples : samples[i].value.t = "float"
            /\ written = << QueryLine("x", "A", <<"3">>),
                            QueryLine("y", "A", <<"5">>) >>
                 => result = IntValue(8)

\* The samples 3 and 5 and between them a sample with a raw string have
\* been summed to 8.
C17_Witness ==
    /\ ValueRead
    /\ args.metric_name = "blocky_query_total"
    /\ args.labels_filter = EmptyDict
    /\ rf.lines = << QueryLine("x", "A", <<"3">>),
                     QueryLine("y", "AAAA", <<"NaN">>),
                     QueryLine("y", "A", <<"5">>) >>
    /\ result = IntValue(8)

\* The samples whose labels have the filter's value on every key of the
\* filter.
Hits(samples, labels_filter) ==
    { i \in DOMAIN samples :
        \A k \in DOMAIN labels_filter :
            /\ k \in DOMAIN samples[i].labels
            /\ samples[i].labels[k] = labels_filter[k] }

\* C18: with a label filter, get_metric_value returns the value of the
\* first sample, in the order of the body, whose labels have the filter's
\* value on every key of the filter; None, not zero, when no sample does;
\* and None when the name has no samples, filter or not.
C18_FirstMatch ==
    ValueRead =>
        LET samples == MetricData(args.metric_name)
        IN  /\ samples = <<>> => result = None
            /\ FilterGiven(args.labels_filter) =>
                 LET hits == Hits(samples, args.labels_filter)
                 IN  /\ hits = {} => result = None
                     /\ hits # {} =>
                          \E i \in hits :
                              /\ \A j \in hits : i <= j
                              /\ result = samples[i].value

\* Two samples match the filter and the value of the first has been
\* returned; the sample before them does not match.
C18_Witness ==
    /\ ValueRead
    /\ args.metric_name = "blocky_query_total"
    /\ args.labels_filter = Put(EmptyDict, "type", "AAAA")
    /\ rf.lines = << QueryLine("y", "A", <<"5">>),
                     QueryLine("x", "AAAA", <<"1", ".", "5">>),
                     QueryLine("y", "AAAA", <<"NaN">>) >>
    /\ result = FloatValue(150)

\* The bucket a sample falls in, by the label the view groups by.
BucketOf(sample, label) ==
    IF label \in DOMAIN sample.labels THEN sample.labels[label] ELSE "unknown"

\* The sum, in hundredths, of the numeric values of the samples in bucket
\* k of the label; a value that is a raw string adds 0.
RECURSIVE BucketHundredths(_, _, _)
BucketHundredths(samples, label, k) ==
    IF samples = <<>> THEN 0
    ELSE BucketHundredths(Tail(samples), label, k)
         + (IF BucketOf(Head(samples), label) = k
               /\ Head(samples).value.t \in {"int", "float"}
            THEN Hundredths(Head(samples).value) ELSE 0)

\* The view of name `view` groups the samples by `label` as the spec says.
GroupedBy(attributes, view, samples, label) ==
    /\ DOMAIN attributes[view]
         = { BucketOf(samples[i], label) : i \in DOMAIN samples }
    /\ \A k \in DOMAIN attributes[view] :
         Hundredths(attributes[view][k]) = BucketHundredths(samples, label, k)

\* C20: the grouped views of the query and response sensors bucket the
\* samples by client and type, by response_type and reason, with "unknown"
\* for a sample without the label, and each bucket holds the sum of the
\* numeric values of its samples, a raw string counting 0; building the
\* view raises nothing, whatever the values of the samples.
C20_GroupedView ==
    /\ (op = "query_total_attributes" /\ Available) =>
         /\ "raised" \notin DOMAIN result
         /\ GroupedBy(result, "by_client", MetricData(args.metric_name), "client")
         /\ GroupedBy(result, "by_type", MetricData(args.metric_name), "type")
    /\ (op = "response_total_attributes" /\ Available) =>
         /\ "raised" \notin DOMAIN result
         /\ GroupedBy(result, "by_response_type",
                      MetricData(args.metric_name), "response_type")
         /\ GroupedBy(result, "by_reason", MetricData(args.metric_name), "reason")

\* async_step_user has returned after a validation that saw `seen` last.
Validated(seen) ==
    /\ op = "async_step_user"
    /\ pc = "idle"
    /\ events # <<>>
    /\ events[Len(events)] = seen

\* C19: the setup step reports 'cannot connect' when the status endpoint is
\* unreachable or answers non-200, and 'invalid response' when it answers
\* 200 with a body without the enabled field; such a body is never
\* reported as 'cannot connect'.
C19_DistinctReasons ==
    /\ (Validated("status_unreachable") \/ Validated("status_non200"))
         => result = ShowForm("cannot_connect")
    /\ Validated("body_without_enabled")
         => result = ShowForm("invalid_response")

\* The value a sample line of the bodies is to give, by its value token.
ExpectedValue(token) ==
    CASE token = <<"3">> -> IntValue(3)
      [] token = <<"5">> -> IntValue(5)
      [] token = <<"7">> -> IntValue(7)
      [] token = <<"42">> -> IntValue(42)
      [] token = <<"+", "3">> -> IntValue(3)
      [] token = <<"1", ".", "5">> -> FloatValue(150)
      [] token = <<"-", ".", "5">> -> FloatValue(-50)
      [] token = <<"1", ".">> -> FloatValue(100)
      [] token = <<"NaN">> -> StrValue("NaN")
      [] token = <<"1e5">> -> StrValue("1e5")
      [] token = <<"1", ".", "3", ".", "3">> -> StrValue("1.3.3")

\* C21: the parser raises on no value token: the Sample of every sample
\* line has a value, which is a float when the token has a '.' and float()
\* takes it, an int when the token has no '.' and int() takes it, and the
\* unchanged text of the token otherwise.
C21_ValueToken ==
    Parsed =>
        \A n \in PROMETHEUS_METRICS :
            LET of == LinesOf(rf.lines, n)
                samples == IF n \in DOMAIN data["prometheus"]
                           THEN data["prometheus"][n] ELSE <<>>
            IN  /\ Len(samples) = Len(of)
                /\ \A i \in DOMAIN of :
                     LET token == of[i].value
                         value == samples[i].value
                         dotted == \E j \in DOMAIN token : token[j] = "."
                     IN  /\ value = ExpectedValue(token)
                         /\ value.t \in {"int", "float", "str"}
                         /\ value.t = "float" => dotted
                         /\ value.t = "int" => ~dotted
                         /\ value.t = "str" => value.s = Concat(token)

\* A body with a token float() refuses and a token int() refuses has been
\* parsed: both are kept as they are written.
C21_Witness ==
    /\ Parsed
    /\ "blocky_cache_hits_total" \in DOMAIN data["prometheus"]
    /\ Len(data["prometheus"]["blocky_cache_hits_total"]) = 2
    /\ data["prometheus"]["blocky_cache_hits_total"][1].value = StrValue("1.3.3")
    /\ data["prometheus"]["blocky_cache_hits_total"][2].value = StrValue("1e5")

\* A refresh is running or has run in the coroutine.
InRefresh == rf.state # "none"

\* C22: within a refresh the status request and the metrics request are
\* never in flight together: while the status call is awaited no metrics
\* request has gone out; a metrics request goes out only after the status
\* call has answered 200 and its body has been normalised, and at most
\* once; and a refresh whose status call has failed has sent none.
C22_StatusThenMetrics ==
    InRefresh =>
        /\ pc \in StatusAwaits =>
             /\ Count(events, "metrics_request") = 0
             /\ rf.mreq = 0
        /\ pc \in MetricsAwaits =>
             /\ Count(events, "status_request") = 1
             /\ Count(events, "status_normalised") = 1
        /\ Before(events, "status_200", "status_normalised")
        /\ Before(events, "status_normalised", "metrics_request")
        /\ Count(events, "metrics_request") = rf.mreq
        /\ rf.mreq <= 1
        /\ rf.mreq = 1 => prometheus_enabled /\ rf.payload # None
        /\ (rf.state \in {"failure", "cancelled"} /\ rf.payload = None) =>
             rf.mreq = 0

\* The metrics request of a refresh is in flight, after the status call has
\* answered and its body has been normalised.
C22_Witness ==
    /\ op = "refresh"
    /\ pc = "metrics_get"
    /\ events = <<"status_request", "status_200", "status_normalised",
                  "metrics_request">>
    /\ rf.mreq = 1

\* C23: every metric sensor the platform builds looks up a key the
\* allow-list table has, so with metrics enabled the setup ends without an
\* exception and adds the three status sensors and all thirteen metric
\* sensors, each bound to a name of the allow-list.
C23_SetupCompletes ==
    (op = "async_setup_entry" /\ prometheus_enabled) =>
         /\ \A i \in DOMAIN MetricSensorClasses :
              SensorKey(MetricSensorClasses[i])
                  \in DOMAIN PROMETHEUS_METRICS_TABLE
         /\ "raised" \notin DOMAIN result
         /\ Len(result.added)
              = Len(StatusSensorClasses) + Len(MetricSensorClasses)
         /\ \A i \in DOMAIN MetricSensorClasses :
              \E j \in DOMAIN result.added :
                  /\ result.added[j].class = MetricSensorClasses[i]
                  /\ result.added[j].metric_name \in PROMETHEUS_METRICS

\* The snapshot the coordinator holds has samples of the metric.
Retained(metric_name) ==
    /\ data # None
    /\ metric_name \in DOMAIN data["prometheus"]
    /\ data["prometheus"][metric_name] # <<>>

\* What the metric sensors read in the state, whatever the metric and the
\* filter: nothing.
ReadsUnavailable ==
    /\ \A metric_name \in SensorMetrics, labels_filter \in LabelFilters :
         GetMetricValue(metric_name, labels_filter) = None
    /\ QueryTotalAttributes = EmptyDict
    /\ ResponseTotalAttributes = EmptyDict

\* last_update_success changes only as a refresh ends, to its outcome.
FlagFollowsRefresh ==
    last_update_success' # last_update_success =>
        \/ rf'.state = "success" /\ last_update_success'
        \/ rf'.state = "failure" /\ ~last_update_success'

\* C24: a metric sensor reads a value only where metrics are enabled, the
\* last refresh that ended succeeded and a snapshot exists.  After a failed
\* refresh every metric sensor reads None and the grouped attributes are
\* empty, though the coordinator still holds the last good snapshot with
\* its metrics; after the next successful refresh the samples are read
\* again.
C24_UnavailableAfterFailure ==
    /\ [](/\ \A metric_name \in SensorMetrics, labels_filter \in LabelFilters :
               GetMetricValue(metric_name, labels_filter) # None =>
                   prometheus_enabled /\ last_update_success /\ data # None
          /\ rf.state = "failure" => ~last_update_success /\ ReadsUnavailable
          /\ (rf.state = "failure" /\ rf.before # None) => data = rf.before
          /\ (rf.state = "success" /\ prometheus_enabled) =>
               /\ last_update_success
               /\ \A metric_name \in SensorMetrics :
                    Retained(metric_name) =>
                        GetMetricValue(metric_name, None) # None)
    /\ [][FlagFollowsRefresh]_vars

\* A refresh has failed after one that succeeded: the snapshot with its
\* samples is still held and the sensor of the metric reads None.
C24_Witness ==
    /\ prometheus_enabled
    /\ rf.state = "failure"
    /\ Retained("blocky_query_total")
    /\ GetMetricValue("blocky_query_total", None) = None
    /\ QueryTotalAttributes = EmptyDict

====
